---- MODULE Spec2Model ----
(***************************************************************************)
(* getmailcore/filters.py: the message filters that hand a message to an   *)
(* external program (Filter_external, Filter_classifier, Filter_TMDA) and  *)
(* the shared outcome policy of FilterSkeleton.filter_message.             *)
(*                                                                         *)
(* Text is a sequence of one-character strings; bytes written by the child *)
(* are integers.  Python's None is the distinguished value None.           *)
(***************************************************************************)
EXTENDS Integers, Sequences, FiniteSets, TLC

\* Python None, for optional text values; no text equals it, since the
\* elements of a text are single characters.
None == <<"None">>

\* ------------------------------------------------------------------------
\* Bounds of the model
\* ------------------------------------------------------------------------
\* most bytes the child writes to its standard output
MaxOut == 2
\* most bytes that reach the standard-error backing store
MaxErr == 1
\* longest captured standard output of the classifier's header loop
MaxLine == 5

\* ------------------------------------------------------------------------
\* Construction: configuration and initialize()
\* ------------------------------------------------------------------------
Variants == {"Filter_external", "Filter_classifier", "Filter_TMDA"}

\* The exit-code items a configuration file can give (ConfTupleOfStrings:
\* every item is a string); "x" is no integer literal.
CodeItems == {"-1", "0", "99", "127", "256", "x"}

IsIntLiteral(s) == s \in {"-1", "0", "1", "99", "100", "127", "255", "256"}

\* int(i) of a string item
ParseInt(s) ==
    CASE s = "-1"  -> -1
      [] s = "0"   -> 0
      [] s = "1"   -> 1
      [] s = "99"  -> 99
      [] s = "100" -> 100
      [] s = "127" -> 127
      [] s = "255" -> 255
      [] s = "256" -> 256

\* [int(i) for i in items if 0 <= int(i) <= 255]; the uses of the list are
\* membership, emptiness and frozenset(), so a set models it.
\* (faulty variant: the range condition left out)
InRangeCodesUnfiltered(items) == {ParseInt(i) : i \in items}
InRangeCodes(items) ==
    {ParseInt(i) : i \in {j \in items : 0 <= ParseInt(j) /\ ParseInt(j) <= 255}}

\* int() raises ValueError on some item
RaisesValueError(items) == \E i \in items : ~IsIntLiteral(i)

\* the constructor raises getmailConfigurationError: no instance exists
ConfigurationError(why) ==
    [state |-> [status |-> "getmailConfigurationError", reason |-> why],
     exitcodes_keep |-> {}, exitcodes_drop |-> {}]

\* the constructor returns the instance
Initialized(keep, drop) ==
    [state |-> [status |-> "initialized", reason |-> ""],
     exitcodes_keep |-> keep, exitcodes_drop |-> drop]

\* the guard of 'exitcode sets intersect'
\* (faulty variant: the test left out)
SetsIntersectNever(keep, drop) == FALSE
SetsIntersect(keep, drop) == keep \cap drop # {}

\* the guard of 'exitcodes_keep set empty'
\* (faulty variant: the test left out)
KeepEmptyNever(keep) == FALSE
KeepEmpty(keep) == keep = {}

\* Filter_external.initialize (inherited by Filter_classifier)
External_initialize(c) ==
    IF c.path # "executable"
    THEN ConfigurationError("not executable")
    ELSE IF ~c.arguments_is_tuple
    THEN ConfigurationError("incorrect arguments format")
    ELSE IF RaisesValueError(c.exitcodes_keep)
              \/ RaisesValueError(c.exitcodes_drop)
    THEN ConfigurationError("invalid exit code specified")
    ELSE LET keep == InRangeCodes(c.exitcodes_keep)
             drop == InRangeCodes(c.exitcodes_drop)
         IN  IF KeepEmpty(keep)
             THEN ConfigurationError("exitcodes_keep set empty")
             ELSE IF SetsIntersect(keep, drop)
             THEN ConfigurationError("exitcode sets intersect")
             ELSE Initialized(keep, drop)

\* Filter_TMDA.initialize: the two sets are literals
\* (faulty variant: the sets are taken from the configuration)
TMDA_initializeFromConf(c) == External_initialize(c)
TMDA_initialize(c) ==
    IF c.path # "executable"
    THEN ConfigurationError("not executable")
    ELSE Initialized({0}, {99})

\* FilterSkeleton.__init__: initialize(), a KeyError (conf['path'] of a
\* configuration without path) becoming getmailConfigurationError
Construct(v, c) ==
    IF c.path = "missing"
    THEN ConfigurationError("missing required configuration parameter")
    ELSE IF v = "Filter_TMDA" THEN TMDA_initialize(c)
    ELSE External_initialize(c)


\* ------------------------------------------------------------------------
\* Bytes and text
\* ------------------------------------------------------------------------
\* bytes of a captured standard output: "a", a non-ASCII byte, space, newline
Bytes == {97, 233, 32, 10}

IsNewline(b) == b = 10

\* whitespace of bytes.strip()
IsSpace(b) == b \in {9, 10, 11, 12, 13, 32}

RECURSIVE LStrip(_)
LStrip(s) == IF s # <<>> /\ IsSpace(Head(s)) THEN LStrip(Tail(s)) ELSE s

RECURSIVE RStrip(_)
RStrip(s) ==
    IF s # <<>> /\ IsSpace(s[Len(s)]) THEN RStrip(SubSeq(s, 1, Len(s) - 1))
    ELSE s

\* bytes.strip()
Strip(s) == RStrip(LStrip(s))

\* file.readlines() of a binary file: the lines, each with its newline
RECURSIVE ReadLinesFrom(_, _)
ReadLinesFrom(s, cur) ==
    IF s = <<>> THEN (IF cur = <<>> THEN <<>> ELSE <<cur>>)
    ELSE IF IsNewline(Head(s))
         THEN <<Append(cur, Head(s))>> \o ReadLinesFrom(Tail(s), <<>>)
         ELSE ReadLinesFrom(Tail(s), Append(cur, Head(s)))

ReadLines(s) == ReadLinesFrom(s, <<>>)

\* decode_crappy_text on one byte: ASCII as itself, any other byte through
\* the fallback encodings
DecodeByte(b) ==
    CASE b = 97  -> "a"
      [] b = 101 -> "e"
      [] b = 32  -> " "
      [] b = 10  -> "\n"
      [] OTHER   -> "U+00E9"

\* decode_crappy_text(line)
decode_crappy_text(s) == [i \in 1..Len(s) |-> DecodeByte(s[i])]

\* sequences over S of length at most n
SeqsUpTo(S, n) == UNION {[1..k -> S] : k \in 0..n}

\* ------------------------------------------------------------------------
\* Messages
\* ------------------------------------------------------------------------
ClassifierHeader == "X-getmail-filter-classifier"

Header(n, v) == [name |-> n, value |-> v]

\* Message.add_header
add_header(m, n, v) == [m EXCEPT !.headers = Append(@, Header(n, v))]

\* Message.copyattrs: the retrieval-derived attributes of the original
copyattrs(new, orig) ==
    [new EXCEPT !.sender = orig.sender, !.recipient = orig.recipient,
                !.received_from = orig.received_from,
                !.received_with = orig.received_with,
                !.received_by = orig.received_by]

Unstamped == "unset"

NewMessage(ident, snd, rcp, hdrs, bdy) ==
    [id |-> ident, sender |-> snd, recipient |-> rcp, headers |-> hdrs,
     body |-> bdy, received_from |-> Unstamped, received_with |-> Unstamped,
     received_by |-> Unstamped]

\* the header loop of Filter_classifier._filter_message: one header per line
\* that is non-blank after strip(), holding the stripped, decoded line
\* (faulty variant of the header loop: blank lines are not filtered out)
RECURSIVE AddClassifierHeadersKeepBlank(_, _)
AddClassifierHeadersKeepBlank(m, lines) ==
    IF lines = <<>> THEN m
    ELSE AddClassifierHeadersKeepBlank(
             add_header(m, ClassifierHeader,
                        decode_crappy_text(Strip(Head(lines)))),
             Tail(lines))

RECURSIVE AddClassifierHeaders(_, _)
AddClassifierHeaders(m, lines) ==
    IF lines = <<>> THEN m
    ELSE IF Strip(Head(lines)) = <<>>
         THEN AddClassifierHeaders(m, Tail(lines))
         ELSE AddClassifierHeaders(
                  add_header(m, ClassifierHeader,
                             decode_crappy_text(Strip(Head(lines)))),
                  Tail(lines))

\* Message(fromfile=stdout): the lines before the first blank line are the
\* header, the rest is the body
RECURSIVE HeaderLines(_)
HeaderLines(lines) ==
    IF lines = <<>> \/ Strip(Head(lines)) = <<>> THEN <<>>
    ELSE <<Header("parsed", decode_crappy_text(Strip(Head(lines))))>>
             \o HeaderLines(Tail(lines))

MessageFromFile(data) ==
    LET hs == HeaderLines(ReadLines(data))
    IN  NewMessage("newmsg", None, None, hs,
                   SubSeq(ReadLines(data), Len(hs) + 1, Len(ReadLines(data))))


\* ------------------------------------------------------------------------
\* State
\* ------------------------------------------------------------------------
VARIABLES
    variant,         \* the class of the filter instance
    conf,            \* self.conf
    state,           \* the constructor's progress: not yet run ("new"),
                     \* "initialized", or the error it raised
    exitcodes_keep,  \* self.exitcodes_keep
    exitcodes_drop,  \* self.exitcodes_drop
    euid,            \* os.geteuid() of the calling process
    pc,              \* where the calling process is in filter_message
    msg,             \* the message passed to filter_message
    msginfo,         \* the msginfo dictionary of _filter_message
    stdout,          \* the backing store of the child's standard output
    stderr,          \* the backing store of the child's standard error
    exitcode,        \* the value _wait_for_child returned
    err,             \* stderr.read().strip()
    newmsg,          \* the message _filter_message returns
    outcome,         \* what filter_message returned or raised
    warned,          \* the call logged the 'fewer headers' warning
    cpc,             \* where the forked child is
    cstatus,         \* the status the child exited with
    cfd,             \* what the child's descriptors 0, 1, 2 are bound to
    cuser,           \* the identity the child runs as
    cfailed,         \* the try block of _filter_command raised
    msgfile,         \* the child's temporary file holding the message
    argv,            \* the argument vector the child built
    environ,         \* what the child added to os.environ
    prev,            \* how the previous filter_message call ended
    forks,           \* os.fork() calls made by this filter_message call
    waits            \* _wait_for_child calls made by this call

filterVars == <<variant, conf, state, exitcodes_keep, exitcodes_drop, euid>>
callVars == <<pc, msg, msginfo, stdout, stderr, exitcode, err, newmsg, outcome,
              warned, forks, waits>>
cprep == <<msgfile, argv, environ>>
childVars == <<cpc, cstatus, cfd, cuser, cfailed, cprep>>
vars == <<filterVars, callVars, childVars, prev>>

\* tempfile.TemporaryFile(): no file yet / an empty file at offset 0
\* (faulty variant: the file still holds what an earlier child wrote).  The
\* offset is shared by parent and child (one open file description).
NoFile == [exists |-> FALSE, data |-> <<>>, pos |-> 0]
TemporaryFileStale == [exists |-> TRUE, data |-> <<101>>, pos |-> 1]
TemporaryFile == [exists |-> TRUE, data |-> <<>>, pos |-> 0]

\* file.write(b): append at the end, offset at the end
Write(f, b) == [f EXCEPT !.data = Append(@, b), !.pos = Len(f.data) + 1]
\* file.seek(0)
Seek0(f) == [f EXCEPT !.pos = 0]
\* what file.read() returns: everything from the offset on
ReadFrom(f) == SubSeq(f.data, f.pos + 1, Len(f.data))
\* the file after read(): offset at the end
AfterRead(f) == [f EXCEPT !.pos = Len(f.data)]

NoMessage == NewMessage("none", None, None, <<>>, <<>>)
NoExitcode == -1
NoOutcome == [kind |-> "none", message |-> NoMessage, exitcode |-> NoExitcode,
              err |-> <<>>, why |-> ""]
InheritedFds == [stdin |-> "inherited", stdout |-> "inherited",
                 stderr |-> "inherited"]

\* the values of the variables of one call before the call starts
CallReset ==
    /\ msginfo = {}
    /\ stdout = NoFile
    /\ stderr = NoFile
    /\ exitcode = NoExitcode
    /\ err = <<>>
    /\ newmsg = NoMessage
    /\ outcome = NoOutcome
    /\ warned = FALSE
    /\ forks = 0
    /\ waits = 0
    /\ cpc = "none"
    /\ cstatus = NoExitcode
    /\ cfd = InheritedFds
    /\ cuser = <<"caller">>
    /\ cfailed = FALSE
    /\ msgfile = NoFile
    /\ argv = <<>>
    /\ environ = {}

\* ------------------------------------------------------------------------
\* Configurations
\* ------------------------------------------------------------------------
\* arguments (Filter_external, Filter_classifier) and conf-break (Filter_TMDA)
\* have their defaults, () and '-', lines 174 and 392
Conf(p, t, k, d, u, a, i, h) ==
    [path |-> p, arguments_is_tuple |-> t, exitcodes_keep |-> k,
     exitcodes_drop |-> d, user |-> u, allow_root_commands |-> a,
     ignore_stderr |-> i, ignore_header_shrinkage |-> h,
     arguments |-> <<>>, conf_break |-> <<"-">>]

Users == {None, <<"m">>}
Euids == {0, 1000}

\* configurations given to the constructor
AllConfs(v) ==
    IF v = "Filter_TMDA"
    THEN {Conf(p, TRUE, {}, {}, None, FALSE, FALSE, FALSE) :
             p \in {"not executable", "executable"}}
    ELSE {Conf(p, t, k, d, None, FALSE, FALSE, FALSE) :
             p \in {"missing", "not executable", "executable"},
             t \in BOOLEAN, k \in SUBSET CodeItems, d \in SUBSET CodeItems}

\* configurations of the filters that process messages; Filter_TMDA has
\* no exit-code parameters (a configuration file may still give them) and no
\* ignore_header_shrinkage (conf.get gives False)
KeepChoices == SUBSET {"0", "127"}
DropChoices == SUBSET {"99", "127"}
RunConfs(v) ==
    IF v = "Filter_TMDA"
    THEN {Conf("executable", TRUE, k, d, u, a, i, FALSE) :
             k \in {{}, {"0", "1"}}, d \in {{}, {"99", "100"}},
             u \in Users, a \in BOOLEAN, i \in BOOLEAN}
    ELSE {Conf("executable", TRUE, k, d, u, a, i, h) :
             k \in KeepChoices, d \in DropChoices, u \in Users,
             a \in BOOLEAN, i \in BOOLEAN, h \in BOOLEAN}

\* bytes the target program writes in a call: "a" and newline on its
\* standard output, "e" and space on its standard error
OutBytes == {97, 10}
ErrBytes == {101, 32}

\* the messages given to filter_message
Recipient == <<"u", "-", "x", "@", "D">>
Sender == <<"s", "@", "d">>
Messages ==
    {NewMessage("msg", s, r, <<Header("Subject", <<"a">>)>>, <<>>) :
        s \in {None, Sender}, r \in {None, Recipient}}

Retriever == [received_from |-> "from", received_with |-> "with",
              received_by |-> "by"]

\* exit statuses of the target program
ExitCodes == {0, 1, 99, 100, 127}


\* ------------------------------------------------------------------------
\* The calling process: filter_message and _filter_message
\* ------------------------------------------------------------------------
Init ==
    /\ variant \in Variants
    /\ conf \in RunConfs(variant)
    /\ Construct(variant, conf).state.status = "initialized"
    /\ state = Construct(variant, conf).state
    /\ exitcodes_keep = Construct(variant, conf).exitcodes_keep
    /\ exitcodes_drop = Construct(variant, conf).exitcodes_drop
    /\ euid \in Euids
    /\ pc = "idle"
    /\ msg = NoMessage
    /\ CallReset
    /\ prev = "none"

Raised(kind, code, text) ==
    [kind |-> kind, message |-> NoMessage, exitcode |-> code, err |-> text,
     why |-> ""]
Returned(m) ==
    [kind |-> IF m = NoMessage THEN "None" ELSE "message", message |-> m,
     exitcode |-> NoExitcode, err |-> <<>>, why |-> ""]
\* getmailConfigurationError(why)
RaisedConfiguration(why) ==
    [Raised("getmailConfigurationError", NoExitcode, <<>>) EXCEPT !.why = why]

\* filter_message, lines 72-77: the provenance is stamped on the message and
\* _filter_message is entered
Enter(m) ==
    /\ state.status = "initialized"
    /\ pc \in {"idle", "returned", "raised"}
    /\ msg' = [m EXCEPT !.received_from = Retriever.received_from,
                        !.received_with = Retriever.received_with,
                        !.received_by = Retriever.received_by]
    /\ pc' = "_prepare_child"
    /\ msginfo' = {}
    /\ stdout' = NoFile
    /\ stderr' = NoFile
    /\ exitcode' = NoExitcode
    /\ err' = <<>>
    /\ newmsg' = NoMessage
    /\ outcome' = NoOutcome
    /\ warned' = FALSE
    /\ forks' = 0
    /\ waits' = 0
    /\ cpc' = "none"
    /\ cstatus' = NoExitcode
    /\ cfd' = InheritedFds
    /\ cuser' = <<"caller">>
    /\ cfailed' = FALSE
    /\ msgfile' = NoFile
    /\ argv' = <<>>
    /\ environ' = {}
    /\ UNCHANGED filterVars

EnterFilterMessage(m) == Enter(m) /\ UNCHANGED prev

\* the same step, with a history variable keeping how the call before ended
EnterAfter(m) == Enter(m) /\ prev' = outcome.kind

\* ForkingBase._prepare_child: the record of the previous child is cleared
PrepareChild ==
    /\ pc = "_prepare_child"
    /\ pc' = IF variant = "Filter_TMDA" THEN "envelope" ELSE "msginfo"
    /\ cpc' = "none"
    /\ cstatus' = NoExitcode
    /\ UNCHANGED <<prev, filterVars, msg, msginfo, stdout, stderr, exitcode,
                   err,
                   newmsg, outcome, warned, forks, waits, cfd, cuser, cfailed,
                   cprep>>

\* str.lower() on one character
LowerChar(c) == CASE c = "D" -> "d" [] c = "U" -> "u" [] OTHER -> c
Lower(s) == [i \in 1..Len(s) |-> LowerChar(s[i])]

\* the index of the last "@" of s, 0 when there is none
LastAt(s) ==
    IF \E i \in 1..Len(s) : s[i] = "@"
    THEN CHOOSE i \in 1..Len(s) :
            s[i] = "@" /\ \A j \in (i + 1)..Len(s) : s[j] # "@"
    ELSE 0

\* recipient.lower().split('@')[-1]
DomainOf(r) == Lower(SubSeq(r, LastAt(r) + 1, Len(r)))
\* '@'.join(recipient.split('@')[:-1])
LocalOf(r) == SubSeq(r, 1, LastAt(r) - 1)

\* s has sub at index i
OccursAt(s, sub, i) ==
    /\ i >= 1
    /\ i + Len(sub) - 1 <= Len(s)
    /\ SubSeq(s, i, i + Len(sub) - 1) = sub

\* str.split(sep) for a non-empty sep: the separators are found from the
\* left and do not overlap; cur is the segment being collected
RECURSIVE SplitFrom(_, _, _)
SplitFrom(s, sep, cur) ==
    IF s = <<>> THEN <<cur>>
    ELSE IF OccursAt(s, sep, 1)
         THEN <<cur>> \o SplitFrom(SubSeq(s, Len(sep) + 1, Len(s)), sep, <<>>)
         ELSE SplitFrom(Tail(s), sep, Append(cur, Head(s)))
Split(s, sep) == SplitFrom(s, sep, <<>>)

\* sep.join(parts)
RECURSIVE Join(_, _)
Join(parts, sep) ==
    IF parts = <<>> THEN <<>>
    ELSE IF Len(parts) = 1 THEN parts[1]
         ELSE parts[1] \o sep \o Join(Tail(parts), sep)

\* parts[:-1]
ButLast(parts) == SubSeq(parts, 1, Len(parts) - 1)

\* Filter_TMDA._filter_command, lines 433-437:
\*   conf-break.join('@'.join(recipient.split('@')[:-1]).split(conf-break)[1:])
\* (faulty variant: the first segment is not removed)
EXTKeepsFirstSegment(recipient, brk) ==
    Join(Split(Join(ButLast(Split(recipient, <<"@">>)), <<"@">>), brk), brk)
EXT(recipient, brk) ==
    Join(Tail(Split(Join(ButLast(Split(recipient, <<"@">>)), <<"@">>), brk)),
         brk)

\* lines 431-437: the three variables set in os.environ
TMDAEnviron(m, c) ==
    {<<"SENDER", m.sender>>, <<"RECIPIENT", m.recipient>>,
     <<"EXT", EXT(m.recipient, c.conf_break)>>}

\* _filter_message, lines 255-261
BuildMsginfo(m) ==
    IF m.recipient # None
    THEN {<<"sender", m.sender>>, <<"recipient", m.recipient>>,
          <<"domain", DomainOf(m.recipient)>>,
          <<"local", LocalOf(m.recipient)>>}
    ELSE {<<"sender", m.sender>>}

Msginfo ==
    /\ pc = "msginfo"
    /\ msginfo' = BuildMsginfo(msg)
    /\ pc' = "gate"
    /\ UNCHANGED <<prev, filterVars, msg, stdout, stderr, exitcode, err,
                   newmsg,
                   outcome, warned, forks, waits, childVars>>

\* Filter_TMDA._filter_message, lines 452-456
\* (faulty variant: only the sender is looked at)
EnvelopeMissingSenderOnly(m) == m.sender = None
EnvelopeMissing(m) == m.recipient = None \/ m.sender = None

EnvelopeCheck ==
    /\ pc = "envelope"
    /\ IF EnvelopeMissing(msg)
       THEN /\ outcome' = RaisedConfiguration("multidrop retrieval required")
            /\ pc' = "raised"
       ELSE /\ pc' = "gate"
            /\ UNCHANGED outcome
    /\ UNCHANGED <<prev, filterVars, msg, msginfo, stdout, stderr, exitcode,
                   err,
                   newmsg, warned, forks, waits, childVars>>

\* lines 264-265: the guard of 'refuse to invoke external commands as root'
\* (faulty variant: allow_root_commands is not consulted)
RefuseAsRootIgnoringOptIn == euid = 0 /\ conf.user = None
RefuseAsRoot ==
    euid = 0 /\ ~conf.allow_root_commands /\ conf.user = None

\* lines 263-268 (321-325, 458-463)
PrivilegeGate ==
    /\ pc = "gate"
    /\ IF RefuseAsRoot
       THEN /\ outcome' = RaisedConfiguration("refuse to invoke as root")
            /\ pc' = "raised"
       ELSE /\ pc' = "stdout_tmp"
            /\ UNCHANGED outcome
    /\ UNCHANGED <<prev, filterVars, msg, msginfo, stdout, stderr, exitcode,
                   err,
                   newmsg, warned, forks, waits, childVars>>

\* line 270: stdout = tempfile.TemporaryFile()
CreateStdout ==
    /\ pc = "stdout_tmp"
    /\ stdout' = TemporaryFile
    /\ pc' = "stderr_tmp"
    /\ UNCHANGED <<prev, filterVars, msg, msginfo, stderr, exitcode, err,
                   newmsg,
                   outcome, warned, forks, waits, childVars>>

\* line 271: stderr = tempfile.TemporaryFile()
CreateStderr ==
    /\ pc = "stderr_tmp"
    /\ stderr' = TemporaryFile
    /\ pc' = "fork"
    /\ UNCHANGED <<prev, filterVars, msg, msginfo, stdout, exitcode, err,
                   newmsg,
                   outcome, warned, forks, waits, childVars>>

\* where the two processes are after os.fork(): the parent (childpid # 0)
\* skips the child branch and goes on to _wait_for_child, the child
\* (childpid = 0) enters _filter_command
\* (faulty variant: the parent reads back without waiting)
ParentAfterForkSkipsWait == "readback"
ParentAfterFork == "wait"
ChildAfterFork == "msgfile"

\* lines 272-277
Fork ==
    /\ pc = "fork"
    /\ forks' = forks + 1
    /\ pc' = ParentAfterFork
    /\ cpc' = ChildAfterFork
    /\ UNCHANGED <<prev, filterVars, msg, msginfo, stdout, stderr, exitcode,
                   err,
                   newmsg, outcome, warned, waits, cstatus, cfd, cuser,
                   cfailed, cprep>>


\* ------------------------------------------------------------------------
\* The forked child: _filter_command, then the target program
\* ------------------------------------------------------------------------
\* the statements of the try block of _filter_command, in order
\* (faulty variant: the exec comes before the change of user and group)
SetupStepsExecBeforeDrop(v) ==
    <<"msgfile", "dup_stdin", "dup_stdout", "dup_stderr",
      IF v = "Filter_TMDA" THEN "environ" ELSE "args", "execl",
      "change_usergroup">>
SetupSteps(v) ==
    <<"msgfile", "dup_stdin", "dup_stdout", "dup_stderr", "change_usergroup",
      IF v = "Filter_TMDA" THEN "environ" ELSE "args", "execl">>

InSetup == \E i \in 1..Len(SetupSteps(variant)) : SetupSteps(variant)[i] = cpc

StepAfter(step) ==
    LET i == CHOOSE j \in 1..Len(SetupSteps(variant)) :
                 SetupSteps(variant)[j] = step
    IN  SetupSteps(variant)[i + 1]

\* msg.flatten(...): the serialized message
Flattened(m) == [headers |-> m.headers, body |-> m.body]

\* lines 222-228 (417-422): the message is written to a new temporary file,
\* which is rewound
ChildWriteMessage ==
    /\ cpc = "msgfile"
    /\ msgfile' = Seek0(Write(TemporaryFile, Flattened(msg)))
    /\ cpc' = StepAfter(cpc)
    /\ UNCHANGED <<prev, filterVars, callVars, cstatus, cfd, cuser, cfailed,
                   argv, environ>>

\* line 230 (424): os.dup2(msgfile.fileno(), 0)
ChildDupStdin ==
    /\ cpc = "dup_stdin"
    /\ cfd' = [cfd EXCEPT !.stdin = "msgfile"]
    /\ cpc' = StepAfter(cpc)
    /\ UNCHANGED <<prev, filterVars, callVars, cstatus, cuser, cfailed, cprep>>

\* line 232 (426): os.dup2(stdout.fileno(), 1)
ChildDupStdout ==
    /\ cpc = "dup_stdout"
    /\ cfd' = [cfd EXCEPT !.stdout = "stdout"]
    /\ cpc' = StepAfter(cpc)
    /\ UNCHANGED <<prev, filterVars, callVars, cstatus, cuser, cfailed, cprep>>

\* line 233 (427): os.dup2(stderr.fileno(), 2)
ChildDupStderr ==
    /\ cpc = "dup_stderr"
    /\ cfd' = [cfd EXCEPT !.stderr = "stderr"]
    /\ cpc' = StepAfter(cpc)
    /\ UNCHANGED <<prev, filterVars, callVars, cstatus, cuser, cfailed, cprep>>

\* line 234 (428): change_usergroup(None, user, group)
ChildChangeUsergroup ==
    /\ cpc = "change_usergroup"
    /\ cuser' = IF conf.user = None THEN cuser ELSE conf.user
    /\ cpc' = StepAfter(cpc)
    /\ UNCHANGED <<prev, filterVars, callVars, cstatus, cfd, cfailed, cprep>>

\* str.replace(old, new) for a non-empty old: the occurrences are found from
\* the left and do not overlap, and what was put in is not looked at again
RECURSIVE Replace(_, _, _)
Replace(s, old, new) ==
    IF s = <<>> THEN <<>>
    ELSE IF OccursAt(s, old, 1)
         THEN new \o Replace(SubSeq(s, Len(old) + 1, Len(s)), old, new)
         ELSE <<Head(s)>> \o Replace(Tail(s), old, new)

\* the characters of a key of msginfo
KeyChars(key) ==
    CASE key = "sender" -> <<"s", "e", "n", "d", "e", "r">>
      [] key = "recipient" -> <<"r", "e", "c", "i", "p", "i", "e", "n", "t">>
      [] key = "domain" -> <<"d", "o", "m", "a", "i", "n">>
      [] key = "local" -> <<"l", "o", "c", "a", "l">>

\* line 239: '%%(%s)' % key
Placeholder(key) == <<"%", "(">> \o KeyChars(key) \o <<")">>

\* the keys of msginfo in the order the dictionary was filled, lines 256-260
MsginfoOrder == <<"sender", "recipient", "domain", "local">>
MsginfoKeys(info) ==
    SelectSeq(MsginfoOrder, LAMBDA k : \E e \in info : e[1] = k)
MsginfoValue(info, key) == (CHOOSE e \in info : e[1] = key)[2]

\* the home directory ~ stands for
Home == <<"/", "h">>
\* expand_user_vars(arg): a leading "~" becomes the home directory
expand_user_vars(arg) ==
    IF /\ Len(arg) >= 1 /\ arg[1] = "~"
       /\ (Len(arg) = 1 \/ arg[2] = "/")
    THEN Home \o Tail(arg)
    ELSE arg

\* lines 238-239: one replace per key of msginfo, each on the result of the
\* one before
RECURSIVE ReplaceKeys(_, _, _)
ReplaceKeys(arg, keys, info) ==
    IF keys = <<>> THEN arg
    ELSE ReplaceKeys(Replace(arg, Placeholder(Head(keys)),
                             MsginfoValue(info, Head(keys))),
                     Tail(keys), info)

\* lines 236-240: what is appended to args for one configured argument
Substituted(arg, info) ==
    ReplaceKeys(expand_user_vars(arg), MsginfoKeys(info), info)

\* line 239: str.replace raises TypeError when the value is None
ReplaceRaises(c, info) ==
    /\ c.arguments # <<>>
    /\ \E e \in info : e[2] = None

\* lines 235-240: args = [path, path] and one entry per configured argument
BuildArgs(c, info) ==
    <<c.path, c.path>>
    \o [i \in 1..Len(c.arguments) |-> Substituted(c.arguments[i], info)]

\* lines 235-240: the argument vector
ChildArgs ==
    /\ cpc = "args"
    /\ ~ReplaceRaises(conf, msginfo)
    /\ argv' = BuildArgs(conf, msginfo)
    /\ cpc' = StepAfter(cpc)
    /\ UNCHANGED <<prev, filterVars, callVars, cstatus, cfd, cuser, cfailed,
                   msgfile, environ>>

\* lines 429-440: the environment of tmda-filter; str.split raises
\* ValueError on an empty separator, which takes the child to the handler
ChildEnviron ==
    /\ cpc = "environ"
    /\ conf.conf_break # <<>>
    /\ environ' = TMDAEnviron(msg, conf)
    /\ cpc' = StepAfter(cpc)
    /\ UNCHANGED <<prev, filterVars, callVars, cstatus, cfd, cuser, cfailed,
                   msgfile, argv>>

\* line 244 (441): os.execl() replaces the process image and never returns
ChildExecl ==
    /\ cpc = "execl"
    /\ cpc' = "running"
    /\ UNCHANGED <<prev, filterVars, callVars, cstatus, cfd, cuser, cfailed,
                   cprep>>

\* the status of os._exit() in the handler, line 250 (447)
SetupFailureStatus == 127

\* where the child is after the except clause: os._exit() ends the process
\* (faulty variant: the handler returns instead of calling os._exit)
AfterHandlerFallsThrough == "returned to _filter_message"
AfterHandler == "exited"

\* lines 245-250 (442-447): a statement of the try block raises; the handler
\* logs (on descriptor 2, which is the backing store once dup2 has bound
\* it) and ends the child
ChildSetupFails ==
    /\ InSetup
    /\ cpc' = AfterHandler
    /\ cstatus' = SetupFailureStatus
    /\ cfailed' = TRUE
    /\ \E logged \in BOOLEAN :
          stderr' = IF logged /\ cfd.stderr = "stderr"
                       /\ Len(stderr.data) < MaxErr
                    THEN Write(stderr, 101) ELSE stderr
    /\ UNCHANGED <<prev, filterVars, pc, msg, msginfo, stdout, exitcode, err,
                   newmsg, outcome, warned, forks, waits, cfd, cuser, cprep>>

\* the target program writes a byte to its standard output
TargetWritesStdout ==
    /\ cpc = "running"
    /\ cfd.stdout = "stdout"
    /\ Len(stdout.data) < MaxOut
    /\ \E b \in OutBytes : stdout' = Write(stdout, b)
    /\ UNCHANGED <<prev, filterVars, pc, msg, msginfo, stderr, exitcode, err,
                   newmsg, outcome, warned, forks, waits, childVars>>

\* the target program writes a byte to its standard error
TargetWritesStderr ==
    /\ cpc = "running"
    /\ cfd.stderr = "stderr"
    /\ Len(stderr.data) < MaxErr
    /\ \E b \in ErrBytes : stderr' = Write(stderr, b)
    /\ UNCHANGED <<prev, filterVars, pc, msg, msginfo, stdout, exitcode, err,
                   newmsg, outcome, warned, forks, waits, childVars>>

\* the target program exits
TargetExits ==
    /\ cpc = "running"
    /\ \E e \in ExitCodes : cstatus' = e
    /\ cpc' = "exited"
    /\ UNCHANGED <<prev, filterVars, callVars, cfd, cuser, cfailed, cprep>>


\* ------------------------------------------------------------------------
\* The calling process after the fork
\* ------------------------------------------------------------------------
\* ForkingBase._wait_for_child, line 280: blocks until the child has
\* terminated and returns its exit status
WaitForChild ==
    /\ pc = "wait"
    /\ cpc = "exited"
    /\ exitcode' = cstatus
    /\ cpc' = "reaped"
    /\ waits' = waits + 1
    /\ pc' = "readback"
    /\ UNCHANGED <<prev, filterVars, msg, msginfo, stdout, stderr, err, newmsg,
                   outcome, warned, forks, cstatus, cfd, cuser, cfailed,
                   cprep>>

\* lines 282-284 (339-341, 477-478): the stores are rewound and the standard
\* error is read and stripped; Filter_TMDA does not rewind stdout
ReadBack ==
    /\ pc = "readback"
    /\ stdout' = IF variant = "Filter_TMDA" THEN stdout ELSE Seek0(stdout)
    /\ err' = Strip(ReadFrom(Seek0(stderr)))
    /\ stderr' = AfterRead(Seek0(stderr))
    /\ pc' = "result"
    /\ UNCHANGED <<prev, filterVars, msg, msginfo, exitcode, newmsg, outcome,
                   warned, forks, waits, childVars>>

\* lines 289-291: Filter_external parses its standard output as the message
ExternalResult ==
    /\ pc = "result"
    /\ variant = "Filter_external"
    /\ newmsg' = MessageFromFile(ReadFrom(stdout))
    /\ stdout' = AfterRead(stdout)
    /\ pc' = "policy"
    /\ UNCHANGED <<prev, filterVars, msg, msginfo, stderr, exitcode, err,
                   outcome,
                   warned, forks, waits, childVars>>

\* lines 346-355: Filter_classifier adds the lines of its standard output as
\* header fields to the message it was given, and returns that message
ClassifierResult ==
    /\ pc = "result"
    /\ variant = "Filter_classifier"
    /\ msg' = AddClassifierHeaders(msg, ReadLines(ReadFrom(stdout)))
    /\ newmsg' = msg'
    /\ stdout' = AfterRead(stdout)
    /\ pc' = "policy"
    /\ UNCHANGED <<prev, filterVars, msginfo, stderr, exitcode, err, outcome,
                   warned, forks, waits, childVars>>

\* line 483: Filter_TMDA returns the message it was given
TMDAResult ==
    /\ pc = "result"
    /\ variant = "Filter_TMDA"
    /\ newmsg' = msg
    /\ pc' = "policy"
    /\ UNCHANGED <<prev, filterVars, msg, msginfo, stdout, stderr, exitcode,
                   err,
                   outcome, warned, forks, waits, childVars>>

\* filter_message, lines 78-93: what the exit code and the standard error
\* mean
\* (faulty variants: the 'not in exitcodes_keep' branch left out; the
\* standard error tested first; ignore_stderr not consulted)
PolicyNoErrorBranch(code, text) ==
    IF code \in exitcodes_drop THEN "drop"
    ELSE IF text # <<>> /\ ~conf.ignore_stderr THEN "stderr"
    ELSE "pass"
PolicyStderrFirst(code, text) ==
    IF text # <<>> /\ ~conf.ignore_stderr THEN "stderr"
    ELSE IF code \in exitcodes_drop THEN "drop"
    ELSE IF code \notin exitcodes_keep THEN "error"
    ELSE "pass"
PolicyStderrAlwaysFatal(code, text) ==
    IF code \in exitcodes_drop THEN "drop"
    ELSE IF code \notin exitcodes_keep THEN "error"
    ELSE IF text # <<>> THEN "stderr"
    ELSE "pass"
Policy(code, text) ==
    IF code \in exitcodes_drop THEN "drop"
    ELSE IF code \notin exitcodes_keep THEN "error"
    ELSE IF text # <<>> /\ ~conf.ignore_stderr THEN "stderr"
    ELSE "pass"

\* filter_message, lines 95-103: the warning of the sanity check
\* (faulty variant: ignore_header_shrinkage is not consulted)
FewerHeadersWarningIgnoringFlag(new, orig) ==
    Len(new.headers) < Len(orig.headers)
FewerHeadersWarning(new, orig) ==
    Len(new.headers) < Len(orig.headers) /\ ~conf.ignore_header_shrinkage

\* filter_message, lines 105-108: the message that is returned
\* (faulty variant: the attributes of the original are not copied)
ReturnedMessageWithoutAttrs(new, orig) == new
ReturnedMessage(new, orig) == copyattrs(new, orig)

\* filter_message, lines 78-108: the policy, then copyattrs on the message
\* that is returned.  newmsg is msg itself unless Filter_external built it.
ApplyPolicy ==
    /\ pc = "policy"
    /\ LET p == Policy(exitcode, err)
           final == ReturnedMessage(newmsg, msg)
       IN  \/ /\ p = "drop"
              /\ outcome' = Returned(NoMessage)
              /\ pc' = "returned"
              /\ UNCHANGED <<msg, newmsg, warned>>
           \/ /\ p \in {"error", "stderr"}
              /\ outcome' = Raised("getmailFilterError", exitcode, err)
              /\ pc' = "raised"
              /\ UNCHANGED <<msg, newmsg, warned>>
           \/ /\ p = "pass"
              /\ warned' = FewerHeadersWarning(newmsg, msg)
              /\ newmsg' = final
              /\ msg' = IF newmsg.id = msg.id THEN final ELSE msg
              /\ outcome' = Returned(final)
              /\ pc' = "returned"
    /\ UNCHANGED <<prev, filterVars, msginfo, stdout, stderr, exitcode, err,
                   forks, waits, childVars>>

Next ==
    \/ \E m \in Messages : EnterFilterMessage(m)
    \/ PrepareChild
    \/ Msginfo
    \/ EnvelopeCheck
    \/ PrivilegeGate
    \/ CreateStdout
    \/ CreateStderr
    \/ Fork
    \/ ChildWriteMessage
    \/ ChildDupStdin
    \/ ChildDupStdout
    \/ ChildDupStderr
    \/ ChildChangeUsergroup
    \/ ChildArgs
    \/ ChildEnviron
    \/ ChildExecl
    \/ ChildSetupFails
    \/ TargetWritesStdout
    \/ TargetWritesStderr
    \/ TargetExits
    \/ WaitForChild
    \/ ReadBack
    \/ ExternalResult
    \/ ClassifierResult
    \/ TMDAResult
    \/ ApplyPolicy

Spec == Init /\ [][Next]_vars


\* ------------------------------------------------------------------------
\* The constructor, over every configuration
\* ------------------------------------------------------------------------
InitNew ==
    /\ variant \in Variants
    /\ conf \in AllConfs(variant)
    /\ state = [status |-> "new", reason |-> ""]
    /\ exitcodes_keep = {}
    /\ exitcodes_drop = {}
    /\ euid \in Euids
    /\ pc = "idle"
    /\ msg = NoMessage
    /\ CallReset
    /\ prev = "none"

\* FilterSkeleton.__init__, lines 62-70
New ==
    /\ state.status = "new"
    /\ state' = Construct(variant, conf).state
    /\ exitcodes_keep' = Construct(variant, conf).exitcodes_keep
    /\ exitcodes_drop' = Construct(variant, conf).exitcodes_drop
    /\ UNCHANGED <<prev, variant, conf, euid, callVars, childVars>>

SpecInit == InitNew /\ [][New]_vars

\* ------------------------------------------------------------------------
\* The classifier's header loop, over every captured standard output
\* ------------------------------------------------------------------------
Stamped(m) ==
    [m EXCEPT !.received_from = Retriever.received_from,
              !.received_with = Retriever.received_with,
              !.received_by = Retriever.received_by]

\* the calling process at line 346: the child has been waited for, the
\* stores are rewound and the standard error is read
InitClassifier ==
    /\ variant = "Filter_classifier"
    /\ conf \in {c \in RunConfs(variant) :
                     c.exitcodes_keep = {"0"} /\ c.exitcodes_drop = {"99"}
                     /\ c.user = None /\ c.allow_root_commands
                     /\ ~c.ignore_stderr}
    /\ state = Construct(variant, conf).state
    /\ exitcodes_keep = Construct(variant, conf).exitcodes_keep
    /\ exitcodes_drop = Construct(variant, conf).exitcodes_drop
    /\ euid = 0
    /\ pc = "result"
    /\ msg \in {Stamped(m) : m \in Messages}
    /\ msginfo = BuildMsginfo(msg)
    /\ \E d \in SeqsUpTo(Bytes, MaxLine) :
          stdout = [exists |-> TRUE, data |-> d, pos |-> 0]
    /\ stderr = TemporaryFile
    /\ exitcode = 0
    /\ err = <<>>
    /\ newmsg = NoMessage
    /\ outcome = NoOutcome
    /\ warned = FALSE
    /\ forks = 1
    /\ waits = 1
    /\ cpc = "reaped"
    /\ cstatus = 0
    /\ cfd = [stdin |-> "msgfile", stdout |-> "stdout", stderr |-> "stderr"]
    /\ cuser = <<"caller">>
    /\ cfailed = FALSE
    /\ msgfile = NoFile
    /\ argv = <<>>
    /\ environ = {}
    /\ prev = "none"

SpecClassifier == InitClassifier /\ [][ClassifierResult]_vars


\* ------------------------------------------------------------------------
\* Properties
\* ------------------------------------------------------------------------
\* the call has ended after the exit status of its child was collected
Completed == pc \in {"returned", "raised"} /\ waits = 1

\* the standard error text the child left, as bytes.strip() leaves it
StderrText == Strip(stderr.data)

\* C1: when the child's exit code is in neither exitcodes_keep nor
\* exitcodes_drop, filter_message raises getmailFilterError carrying the
\* exit code and the standard error text and returns no message, whatever
\* the standard error holds and whatever ignore_stderr is.
C1_ErrorOutsideKeepAndDrop ==
    (Completed /\ cstatus \notin (exitcodes_keep \cup exitcodes_drop))
        => /\ pc = "raised"
           /\ outcome.kind = "getmailFilterError"
           /\ outcome.exitcode = cstatus
           /\ outcome.err = StderrText
           /\ outcome.message = NoMessage

C1_Witness ==
    /\ Completed
    /\ cstatus = 1
    /\ conf.ignore_stderr
    /\ StderrText # <<>>
    /\ outcome.kind = "getmailFilterError"

\* C2: when the child's exit code is in exitcodes_drop, filter_message
\* returns None and raises nothing, whatever the child wrote to its standard
\* output and standard error and whatever ignore_stderr is.
C2_DropReturnsNone ==
    (Completed /\ cstatus \in exitcodes_drop)
        => pc = "returned" /\ outcome.kind = "None"

C2_Witness ==
    /\ Completed
    /\ cstatus \in exitcodes_drop
    /\ ~conf.ignore_stderr
    /\ StderrText # <<>>
    /\ stdout.data # <<>>
    /\ outcome.kind = "None"

\* C3: for an exit code in exitcodes_keep: with non-empty stripped standard
\* error, filter_message raises getmailFilterError and returns no message
\* when ignore_stderr is false, and returns the resulting message without
\* raising when ignore_stderr is true; with empty standard error it returns
\* the resulting message.
C3_KeepAndStderr ==
    (Completed /\ cstatus \in exitcodes_keep)
        => IF StderrText # <<>> /\ ~conf.ignore_stderr
           THEN /\ pc = "raised"
                /\ outcome.kind = "getmailFilterError"
                /\ outcome.message = NoMessage
           ELSE /\ pc = "returned"
                /\ outcome.kind = "message"
                /\ outcome.message = newmsg
                /\ outcome.message.id =
                       IF variant = "Filter_external" THEN "newmsg" ELSE "msg"

C3_Witness ==
    /\ Completed
    /\ cstatus \in exitcodes_keep
    /\ StderrText # <<>>
    /\ conf.ignore_stderr
    /\ outcome.kind = "message"

\* the exit codes 0..255 among the configured items
ConfiguredCodes(items) ==
    {n \in 0..255 : \E i \in items : IsIntLiteral(i) /\ ParseInt(i) = n}

\* C4 (as stated): in a constructed filter exitcodes_keep is non-empty and
\* disjoint from exitcodes_drop, and constructing a Filter_external or
\* Filter_classifier whose configured keep and drop sets overlap, or whose
\* keep set is empty, fails with getmailConfigurationError.
C4_AsStated ==
    /\ state.status = "initialized"
          => exitcodes_keep # {} /\ exitcodes_keep \cap exitcodes_drop = {}
    /\ (/\ state.status # "new"
        /\ variant # "Filter_TMDA"
        /\ \/ conf.exitcodes_keep \cap conf.exitcodes_drop # {}
           \/ conf.exitcodes_keep = {})
          => state.status = "getmailConfigurationError"

\* C4 (amended): in a constructed filter exitcodes_keep is non-empty and
\* disjoint from exitcodes_drop, and constructing a Filter_external or
\* Filter_classifier whose configured keep and drop sets overlap on a value
\* in 0..255, or whose keep set has no value in 0..255, fails with
\* getmailConfigurationError.
C4_DisjointNonEmpty ==
    /\ state.status = "initialized"
          => exitcodes_keep # {} /\ exitcodes_keep \cap exitcodes_drop = {}
    /\ (/\ state.status # "new"
        /\ variant # "Filter_TMDA"
        /\ \/ ConfiguredCodes(conf.exitcodes_keep)
                 \cap ConfiguredCodes(conf.exitcodes_drop) # {}
           \/ ConfiguredCodes(conf.exitcodes_keep) = {})
          => state.status = "getmailConfigurationError"

C4_Witness ==
    /\ variant = "Filter_external"
    /\ conf.exitcodes_keep = {"0", "127"}
    /\ conf.exitcodes_drop = {"99", "127"}
    /\ state = [status |-> "getmailConfigurationError",
                reason |-> "exitcode sets intersect"]

\* the three conditions of the privilege gate
GateConditions ==
    euid = 0 /\ conf.allow_root_commands = FALSE /\ conf.user = None

\* C5: when the effective uid is 0, allow_root_commands is false and no
\* run-as user is configured, filter_message raises
\* getmailConfigurationError with no child forked and no backing store
\* created; when one of the three conditions is false the gate does not
\* raise.
C5_PrivilegeGate ==
    /\ GateConditions
          => /\ forks = 0
             /\ cpc = "none"
             /\ ~stdout.exists
             /\ ~stderr.exists
             /\ pc # "returned"
             /\ pc = "raised" => outcome.kind = "getmailConfigurationError"
    /\ (~GateConditions /\ outcome.kind = "getmailConfigurationError")
          => variant = "Filter_TMDA" /\ EnvelopeMissing(msg)

C5_Witness ==
    /\ GateConditions
    /\ variant = "Filter_external"
    /\ pc = "raised"
    /\ outcome.kind = "getmailConfigurationError"

\* C6: whenever setup in the child fails the child exits with status 127,
\* and the parent's filter_message then raises getmailFilterError: the
\* message is neither passed on nor dropped.
C6_SetupFailureRaises ==
    /\ cfailed => cstatus = 127
    /\ (Completed /\ cfailed)
          => pc = "raised" /\ outcome.kind = "getmailFilterError"

\* C7: the parent collects the child's exit status after the fork and
\* before it rewinds or reads a backing store; nothing is read while the
\* child is running.
C7_WaitBeforeRead ==
    (\/ pc \in {"readback", "result", "policy"}
     \/ stdout.pos < Len(stdout.data)
     \/ stderr.pos < Len(stderr.data)
     \/ err # <<>>
     \/ newmsg # NoMessage)
        => /\ forks = 1
           /\ waits = 1
           /\ cpc = "reaped"
           /\ exitcode = cstatus

C7_Witness ==
    /\ pc = "result"
    /\ cpc = "reaped"
    /\ stdout.data # <<>>
    /\ stdout.pos = 0
    /\ err # <<>>

\* C8: a call that passes the pre-spawn checks forks exactly one child and
\* waits exactly once; no call forks a second child, and when the call
\* returns or raises no forked child is left un-waited.
C8_OneForkOneWait ==
    /\ forks \in {0, 1}
    /\ waits <= forks
    /\ forks = 0 <=> cpc = "none"
    /\ (pc \in {"returned", "raised"}
            /\ outcome.kind # "getmailConfigurationError")
          => forks = 1 /\ waits = 1 /\ cpc = "reaped"
    /\ (pc \in {"returned", "raised"}
            /\ outcome.kind = "getmailConfigurationError")
          => forks = 0 /\ waits = 0

C8_Witness ==
    /\ pc = "raised"
    /\ outcome.kind = "getmailFilterError"
    /\ forks = 1
    /\ waits = 1
    /\ cpc = "reaped"

\* the places of the child inside _filter_command
SetupPlaces == {SetupSteps(variant)[i] : i \in 1..Len(SetupSteps(variant))}

\* C9: after the fork the child ends either in the exec of the target or in
\* _exit(127); it never goes on into the parent's code: the wait, the reads
\* and the policy evaluation are not done by the child.
C9_ChildNeverReturns ==
    [][/\ cpc \in SetupPlaces
          => /\ cpc' \in SetupPlaces \cup {"running", "exited"}
             /\ cpc' = "running" => cpc = "execl"
             /\ cpc' = "exited" => cstatus' = 127
       /\ cpc' # cpc
          => \/ cpc \in SetupPlaces \cup {"running"}
                /\ UNCHANGED <<pc, exitcode, err, newmsg, outcome, warned,
                               waits>>
             \/ cpc' \in {"none", "msgfile", "reaped"}]_vars

C9_Witness == cpc = "exited" /\ cfailed /\ cstatus = 127 /\ pc = "wait"


\* the positions of d at which a line starts
LineStarts(d) == {i \in 1..Len(d) : i = 1 \/ d[i - 1] = 10}
\* the last position of the line starting at i: its newline, or the end
LineEnd(d, i) ==
    IF \E j \in i..Len(d) : d[j] = 10
    THEN CHOOSE j \in i..Len(d) : d[j] = 10 /\ \A k \in i..(j - 1) : d[k] # 10
    ELSE Len(d)
\* the positions of the line starting at i that hold no whitespace
Inked(d, i) == {j \in i..LineEnd(d, i) : d[j] \notin {9, 10, 11, 12, 13, 32}}
\* the starts of the lines that are not blank
NonBlankStarts(d) == {i \in LineStarts(d) : Inked(d, i) # {}}
Least(S) == CHOOSE x \in S : \A y \in S : x <= y
Greatest(S) == CHOOSE x \in S : \A y \in S : y <= x
\* the text of the non-blank line starting at i, from its first to its
\* last non-whitespace byte, decoded
StrippedText(d, i) ==
    [k \in 1..(Greatest(Inked(d, i)) - Least(Inked(d, i)) + 1) |->
        DecodeByte(d[Least(Inked(d, i)) + k - 1])]

\* n is m with one classifier header field per non-blank line of d added,
\* in the order of the lines, and nothing else changed
HeadersAdded(m, d, n) ==
    /\ n = [m EXCEPT !.headers = n.headers]
    /\ Len(n.headers) = Len(m.headers) + Cardinality(NonBlankStarts(d))
    /\ SubSeq(n.headers, 1, Len(m.headers)) = m.headers
    /\ \A i \in NonBlankStarts(d) :
          n.headers[Len(m.headers)
                        + Cardinality({j \in NonBlankStarts(d) : j <= i})]
              = [name |-> "X-getmail-filter-classifier",
                 value |-> StrippedText(d, i)]

\* C10: the message the classifier's _filter_message returns is the message
\* it was given with exactly one X-getmail-filter-classifier header field
\* added per line of the standard output that is non-blank after stripping,
\* in the order of the lines, each holding the stripped, decoded line; blank
\* lines add nothing, and empty standard output leaves the message as it
\* was.
C10_ClassifierHeaders ==
    [][(pc = "result" /\ pc' = "policy" /\ variant = "Filter_classifier")
          => /\ HeadersAdded(msg, stdout.data, newmsg')
             /\ msg' = newmsg'
             /\ stdout.data = <<>> => newmsg' = msg]_vars

C10_Witness ==
    /\ pc = "policy"
    /\ stdout.data = <<97, 10, 32, 10, 233>>
    /\ Len(newmsg.headers) = 3
    /\ newmsg.headers[2].value = <<"a">>
    /\ newmsg.headers[3].value = <<"U+00E9">>


\* ------------------------------------------------------------------------
\* The environment built by the child of Filter_TMDA, over every recipient
\* ------------------------------------------------------------------------
MaxRcpt == 7
RcptChars == {"u", "-", "@"}
\* values of conf-break: the default, a longer one and the empty string
Breaks == {<<"-">>, <<"-", "-">>, <<>>}

\* the two processes when the child is at line 429: the parent waits, the
\* child has bound its descriptors and changed its identity
InitEnviron ==
    /\ variant = "Filter_TMDA"
    /\ \E c \in RunConfs(variant), b \in Breaks :
          /\ c.user = None /\ c.allow_root_commands /\ ~c.ignore_stderr
          /\ conf = [c EXCEPT !.conf_break = b]
    /\ state = Construct(variant, conf).state
    /\ exitcodes_keep = Construct(variant, conf).exitcodes_keep
    /\ exitcodes_drop = Construct(variant, conf).exitcodes_drop
    /\ euid = 1000
    /\ pc = "wait"
    /\ \E r \in SeqsUpTo(RcptChars, MaxRcpt) :
          msg = Stamped(NewMessage("original", Sender, r,
                                   <<Header("Subject", <<97>>)>>, <<>>))
    /\ msginfo = {}
    /\ stdout = TemporaryFile
    /\ stderr = TemporaryFile
    /\ exitcode = NoExitcode
    /\ err = <<>>
    /\ newmsg = NoMessage
    /\ outcome = NoOutcome
    /\ warned = FALSE
    /\ forks = 1
    /\ waits = 0
    /\ cpc = "environ"
    /\ cstatus = NoExitcode
    /\ cfd = [stdin |-> "msgfile", stdout |-> "stdout", stderr |-> "stderr"]
    /\ cuser = <<"caller">>
    /\ cfailed = FALSE
    /\ msgfile = NoFile
    /\ argv = <<>>
    /\ environ = {}
    /\ prev = "none"

SpecEnviron == InitEnviron /\ [][ChildEnviron \/ ChildSetupFails]_vars

\* the part of recipient before its last "@": nothing when it has none
BeforeLastAt(r) ==
    IF \E i \in 1..Len(r) : r[i] = "@"
    THEN SubSeq(r, 1, Greatest({i \in 1..Len(r) : r[i] = "@"}) - 1)
    ELSE <<>>

\* the indices at which brk occurs in s
Occurrences(s, brk) == {i \in 1..Len(s) : OccursAt(s, brk, i)}

\* what is left of s after the first occurrence of brk, nothing when brk does
\* not occur
AfterFirst(s, brk) ==
    IF Occurrences(s, brk) = {} THEN <<>>
    ELSE SubSeq(s, Least(Occurrences(s, brk)) + Len(brk), Len(s))

\* the value of a variable in the environment the child built
EnvValues(name) == {e[2] : e \in {x \in environ : x[1] = name}}

\* C11: once the child of Filter_TMDA has built its environment, SENDER and
\* RECIPIENT are the message's sender and recipient unchanged and EXT is the
\* local part (what precedes the last "@") without its first conf-break
\* separated segment: what follows the first occurrence of conf-break, and
\* the empty string when conf-break does not occur in the local part;
\* recipient "u-u-u@u" with break "-" gives "u-u".
C11_Ext ==
    environ # {}
    => /\ EnvValues("SENDER") = {msg.sender}
       /\ EnvValues("RECIPIENT") = {msg.recipient}
       /\ EnvValues("EXT") =
             {AfterFirst(BeforeLastAt(msg.recipient), conf.conf_break)}
       /\ Occurrences(BeforeLastAt(msg.recipient), conf.conf_break) = {}
          => EnvValues("EXT") = {<<>>}
       /\ (/\ msg.recipient = <<"u", "-", "u", "-", "u", "@", "u">>
           /\ conf.conf_break = <<"-">>)
          => EnvValues("EXT") = {<<"u", "-", "u">>}

C11_Witness ==
    /\ cpc = "execl"
    /\ msg.recipient = <<"u", "-", "u", "-", "u", "@", "u">>
    /\ conf.conf_break = <<"-">>
    /\ <<"EXT", <<"u", "-", "u">>>> \in environ


\* ------------------------------------------------------------------------
\* The argument vector built by the child of Filter_external, over argument
\* templates and envelope values
\* ------------------------------------------------------------------------
MaxFrags == 2
\* what the argument templates are made of
Fragments ==
    {<<"-">>, <<"~">>, <<"/">>} \cup
    {Placeholder(MsginfoOrder[i]) : i \in 1..Len(MsginfoOrder)}

RECURSIVE Flatten(_)
Flatten(fs) == IF fs = <<>> THEN <<>> ELSE Head(fs) \o Flatten(Tail(fs))

Templates == {Flatten(fs) : fs \in SeqsUpTo(Fragments, MaxFrags)}

\* values of conf['arguments']: no argument, one, or two
ArgumentLists ==
    {<<>>} \cup {<<t>> : t \in Templates}
    \cup {<<t, f>> : t \in Templates, f \in Fragments}

\* envelope senders: absent, plain, and two that spell a placeholder
Senders == {None, Sender, Placeholder("local"), Placeholder("recipient")}

\* the two processes when the child is at line 235
InitArgs ==
    /\ variant = "Filter_external"
    /\ \E c \in RunConfs(variant), a \in ArgumentLists :
          /\ c.user = None /\ c.allow_root_commands /\ ~c.ignore_stderr
          /\ ~c.ignore_header_shrinkage
          /\ c.exitcodes_keep = {"0"} /\ c.exitcodes_drop = {"99"}
          /\ conf = [c EXCEPT !.arguments = a]
    /\ state = Construct(variant, conf).state
    /\ exitcodes_keep = Construct(variant, conf).exitcodes_keep
    /\ exitcodes_drop = Construct(variant, conf).exitcodes_drop
    /\ euid = 1000
    /\ pc = "wait"
    /\ \E snd \in Senders, r \in {None, Recipient} :
          msg = Stamped(NewMessage("original", snd, r,
                                   <<Header("Subject", <<97>>)>>, <<>>))
    /\ msginfo = BuildMsginfo(msg)
    /\ stdout = TemporaryFile
    /\ stderr = TemporaryFile
    /\ exitcode = NoExitcode
    /\ err = <<>>
    /\ newmsg = NoMessage
    /\ outcome = NoOutcome
    /\ warned = FALSE
    /\ forks = 1
    /\ waits = 0
    /\ cpc = "args"
    /\ cstatus = NoExitcode
    /\ cfd = [stdin |-> "msgfile", stdout |-> "stdout", stderr |-> "stderr"]
    /\ cuser = <<"caller">>
    /\ cfailed = FALSE
    /\ msgfile = NoFile
    /\ argv = <<>>
    /\ environ = {}
    /\ prev = "none"

SpecArgs == InitArgs /\ [][ChildArgs \/ ChildSetupFails]_vars

\* the key whose placeholder t has at index i, "" when it has none
KeyAt(t, i, info) ==
    IF \E k \in {e[1] : e \in info} : OccursAt(t, Placeholder(k), i)
    THEN CHOOSE k \in {e[1] : e \in info} : OccursAt(t, Placeholder(k), i)
    ELSE ""

\* the template read once from the left from index i on: a placeholder of a
\* field of msginfo gives the field's value, any other character itself
RECURSIVE OnePass(_, _, _)
OnePass(t, i, info) ==
    IF i > Len(t) THEN <<>>
    ELSE IF KeyAt(t, i, info) # ""
         THEN MsginfoValue(info, KeyAt(t, i, info))
              \o OnePass(t, i + Len(Placeholder(KeyAt(t, i, info))), info)
         ELSE <<t[i]>> \o OnePass(t, i + 1, info)

\* C12 (as stated): the argument vector is the path twice followed by one
\* entry per configured argument, in order, each the (home-expanded) template
\* with every placeholder of a message field replaced by the field's value as
\* literal text and every other character unchanged.
C12_LiteralSubstitution ==
    argv # <<>>
    => /\ Len(argv) = 2 + Len(conf.arguments)
       /\ argv[1] = conf.path
       /\ argv[2] = conf.path
       /\ \A i \in 1..Len(conf.arguments) :
             argv[2 + i] =
                OnePass(expand_user_vars(conf.arguments[i]), 1, msginfo)

\* what of C12 holds of lines 235-240: the shape of the vector, and the
\* literal reading when no field's value spells a placeholder;
\* "-%(sender)" with sender "s@d" gives "-s@d"
C12_PlainValues ==
    argv # <<>>
    => /\ Len(argv) = 2 + Len(conf.arguments)
       /\ argv[1] = conf.path
       /\ argv[2] = conf.path
       /\ \A i \in 1..Len(conf.arguments) :
             msg.sender = Sender
             => argv[2 + i] =
                   OnePass(expand_user_vars(conf.arguments[i]), 1, msginfo)
       /\ (/\ msg.sender = Sender
           /\ conf.arguments = <<<<"-">> \o Placeholder("sender")>>)
          => argv[3] = <<"-", "s", "@", "d">>


\* C13: when the exit code is in exitcodes_keep and the standard error does
\* not cause an error, filter_message returns the resulting message even if
\* it has fewer headers than the original; the warning is logged exactly
\* when the count shrank and ignore_header_shrinkage is not set.  A call
\* that drops or raises logs no such warning.
C13_HeaderShrinkage ==
    Completed
    => IF /\ cstatus \in exitcodes_keep
          /\ (StderrText = <<>> \/ conf.ignore_stderr)
       THEN /\ pc = "returned"
            /\ outcome.kind = "message"
            /\ warned <=> /\ Len(outcome.message.headers) < Len(msg.headers)
                          /\ ~conf.ignore_header_shrinkage
       ELSE ~warned

C13_Witness ==
    /\ Completed
    /\ outcome.kind = "message"
    /\ Len(outcome.message.headers) < Len(msg.headers)
    /\ conf.ignore_header_shrinkage
    /\ ~warned


C15_EnvelopeFirst ==
    (/\ variant = "Filter_TMDA"
     /\ pc \notin {"idle", "_prepare_child", "envelope"}
     /\ (msg.sender = None \/ msg.recipient = None))
    => /\ pc = "raised"
       /\ outcome.kind = "getmailConfigurationError"
       /\ outcome.why = "multidrop retrieval required"
       /\ forks = 0
       /\ cpc = "none"

C15_Witness ==
    /\ variant = "Filter_TMDA"
    /\ msg.sender # None
    /\ msg.recipient = None
    /\ RefuseAsRoot
    /\ pc = "raised"
    /\ outcome.why = "multidrop retrieval required"


\* ------------------------------------------------------------------------
\* Sequences of calls on one filter, with the ending of the call before kept
\* ------------------------------------------------------------------------
InitCalls ==
    /\ Init
    /\ conf.user = None
    /\ ~conf.ignore_header_shrinkage
    /\ conf.exitcodes_keep \in {{}, {"0"}}
    /\ conf.exitcodes_drop \in {{}, {"99"}}

NextCalls ==
    \/ \E m \in Messages : EnterAfter(m)
    \/ PrepareChild
    \/ Msginfo
    \/ EnvelopeCheck
    \/ PrivilegeGate
    \/ CreateStdout
    \/ CreateStderr
    \/ Fork
    \/ ChildWriteMessage
    \/ ChildDupStdin
    \/ ChildDupStdout
    \/ ChildDupStderr
    \/ ChildChangeUsergroup
    \/ ChildArgs
    \/ ChildEnviron
    \/ ChildExecl
    \/ ChildSetupFails
    \/ TargetWritesStdout
    \/ TargetWritesStderr
    \/ TargetExits
    \/ WaitForChild
    \/ ReadBack
    \/ ExternalResult
    \/ ClassifierResult
    \/ TMDAResult
    \/ ApplyPolicy

SpecCalls == InitCalls /\ [][NextCalls]_vars

\* pass, drop or error
OutcomeClass ==
    CASE outcome.kind = "message" -> "pass"
      [] outcome.kind = "None" -> "drop"
      [] OTHER -> "error"

\* the class the exit code and the standard error text of this call give
\* under the sets and flags of the filter; a call that forked no child has
\* no exit code and ends in an error
ClassOf(waited, code, text) ==
    IF ~waited THEN "error"
    ELSE IF code \in exitcodes_drop THEN "drop"
    ELSE IF code \notin exitcodes_keep THEN "error"
    ELSE IF text # <<>> /\ ~conf.ignore_stderr THEN "error"
    ELSE "pass"

\* C16: over any sequence of filter_message calls on one filter, no call
\* changes exitcodes_keep, exitcodes_drop or the configuration; the backing
\* stores a call creates are new and empty; and a completed call has passed,
\* dropped or failed as its own exit code and standard error text say under
\* the filter's sets and flags, however the call before ended.
C16_CallsIndependent ==
    /\ [](pc \in {"returned", "raised"}
          => OutcomeClass = ClassOf(waits = 1, cstatus, StderrText))
    /\ [][/\ UNCHANGED <<conf, state, exitcodes_keep, exitcodes_drop>>
          /\ (~stdout.exists /\ stdout'.exists)
             => stdout'.data = <<>> /\ stdout'.pos = 0
          /\ (~stderr.exists /\ stderr'.exists)
             => stderr'.data = <<>> /\ stderr'.pos = 0
          /\ (~msgfile.exists /\ msgfile'.exists)
             => msgfile'.data = <<Flattened(msg)>>]_vars

C16_Witness ==
    /\ prev = "getmailFilterError"
    /\ pc = "returned"
    /\ outcome.kind = "message"
    /\ waits = 1


\* ------------------------------------------------------------------------
\* Progress of the calling process
\* ------------------------------------------------------------------------
InitLive ==
    /\ Init
    /\ conf.user = None
    /\ conf.allow_root_commands
    /\ ~conf.ignore_header_shrinkage
    /\ conf.exitcodes_keep \in {{}, {"0"}}
    /\ conf.exitcodes_drop \in {{}, {"99"}}
    /\ euid = 1000

\* the statements of the calling process from the wait on: the process is
\* scheduled, so a statement that stays possible is executed.  Nothing is
\* assumed of the child and of the target program.
AfterTheFork ==
    \/ WaitForChild
    \/ ReadBack
    \/ ExternalResult
    \/ ClassifierResult
    \/ TMDAResult
    \/ ApplyPolicy

SpecLive == InitLive /\ [][Next]_vars /\ WF_vars(AfterTheFork)

\* the child of this call exists and has not terminated
ChildAlive == forks = 1 /\ cpc \notin {"exited", "reaped"}

\* C17: once the child has exited, the waiting call goes on to complete,
\* with a returned message, a returned None or a raised error; as long as
\* the child has not exited the call stays in the wait: it has read neither
\* store, has no exit code and has no outcome.
C17_BlocksUntilExit ==
    /\ (pc = "wait" /\ cpc = "exited") ~> (pc \in {"returned", "raised"})
    /\ [](ChildAlive
          => /\ pc = "wait"
             /\ exitcode = NoExitcode
             /\ err = <<>>
             /\ stdout.pos = Len(stdout.data)
             /\ outcome = NoOutcome)
    /\ [](Completed
          => \/ pc = "returned" /\ outcome.kind \in {"message", "None"}
             \/ pc = "raised" /\ outcome.kind = "getmailFilterError")

C17_Witness ==
    /\ pc = "raised"
    /\ waits = 1
    /\ cpc = "reaped"
    /\ outcome.kind = "getmailFilterError"
    /\ stdout.data # <<>>


\* C18: the target runs only after the child has written the serialized
\* message to its temporary file and rewound it, bound that file as standard
\* input and the two backing stores, each its own, as standard output and
\* standard error, and changed to the configured user: no exec with the
\* caller's identity when a user is configured, none with an inherited
\* descriptor.
C18_ExecAfterSetup ==
    cpc = "running"
    => /\ msgfile.exists
       /\ msgfile.data = <<[headers |-> msg.headers, body |-> msg.body]>>
       /\ msgfile.pos = 0
       /\ cfd.stdin = "msgfile"
       /\ cfd.stdout = "stdout"
       /\ cfd.stderr = "stderr"
       /\ stdout.exists /\ stderr.exists
       /\ conf.user # None => cuser = conf.user
       /\ ~cfailed

C18_Witness ==
    /\ cpc = "running"
    /\ euid = 0
    /\ conf.user # None
    /\ cuser = conf.user
    /\ cfd.stdin = "msgfile"


\* C19: from the first statements of filter_message on, the original message
\* carries the retriever's received_from, received_with and received_by,
\* also when the call ends in a drop or in an error; a message that is
\* returned carries the original's attributes, which are copied after the
\* policy has been evaluated: the message Filter_external built has none of
\* them while the policy is still to be evaluated.
C19_Provenance ==
    /\ pc # "idle"
       => /\ msg.received_from = "from"
          /\ msg.received_with = "with"
          /\ msg.received_by = "by"
    /\ outcome.kind = "message"
       => /\ outcome.message.received_from = "from"
          /\ outcome.message.received_with = "with"
          /\ outcome.message.received_by = "by"
          /\ outcome.message.sender = msg.sender
          /\ outcome.message.recipient = msg.recipient
    /\ (variant = "Filter_external" /\ pc = "policy")
       => /\ newmsg.received_from = "unset"
          /\ newmsg.sender = None

C19_Witness ==
    /\ variant = "Filter_external"
    /\ pc = "returned"
    /\ outcome.kind = "message"
    /\ outcome.message.id = "newmsg"
    /\ outcome.message.received_by = "by"
    /\ outcome.message.sender = Sender


\* the values in 0..255 among the integers the items spell
ValuesInRange(items) ==
    {n \in 0..255 : \E i \in items : IsIntLiteral(i) /\ ParseInt(i) = n}

\* C20: for Filter_external and Filter_classifier with an executable path
\* and a tuple of arguments, an item that is no integer makes the
\* constructor fail with getmailConfigurationError; otherwise the items
\* outside 0..255 are dropped without an error and the tests see the rest
\* only: no keep value left fails as 'exitcodes_keep set empty', a common
\* value among the rest fails as 'exitcode sets intersect', and in every
\* other case (a keep set with a value in range, overlap on values out of
\* range only) the filter is constructed with exactly the values in range.
C20_OutOfRangeDiscarded ==
    (/\ variant # "Filter_TMDA"
     /\ state.status # "new"
     /\ conf.path = "executable"
     /\ conf.arguments_is_tuple)
    => LET keep == ValuesInRange(conf.exitcodes_keep)
           drop == ValuesInRange(conf.exitcodes_drop)
       IN  IF \E i \in conf.exitcodes_keep \cup conf.exitcodes_drop :
                 ~IsIntLiteral(i)
           THEN /\ state.status = "getmailConfigurationError"
                /\ state.reason = "invalid exit code specified"
           ELSE IF keep = {}
           THEN /\ state.status = "getmailConfigurationError"
                /\ state.reason = "exitcodes_keep set empty"
           ELSE IF keep \cap drop # {}
           THEN /\ state.status = "getmailConfigurationError"
                /\ state.reason = "exitcode sets intersect"
           ELSE /\ state.status = "initialized"
                /\ exitcodes_keep = keep
                /\ exitcodes_drop = drop

C20_Witness ==
    /\ variant = "Filter_external"
    /\ state.status = "initialized"
    /\ conf.exitcodes_keep = {"-1", "0", "256"}
    /\ conf.exitcodes_drop = {"-1", "256"}
    /\ exitcodes_keep = {0}
    /\ exitcodes_drop = {}


\* the orders in which the keys of info can be taken
KeyOrders(info) ==
    LET keys == {e[1] : e \in info}
    IN  {o \in [1..Cardinality(keys) -> keys] :
            \A i, j \in 1..Cardinality(keys) : o[i] = o[j] => i = j}

\* C21 (as stated): a value that has been put in is not scanned again: the
\* argument "%(sender)" becomes the sender's text verbatim, also when that
\* text spells another placeholder, and every entry of the argument vector
\* is what the replacements give in any order of the fields.
C21_SinglePassAnyOrder ==
    argv # <<>>
    => \A i \in 1..Len(conf.arguments) :
          /\ conf.arguments[i] = Placeholder("sender")
             => argv[2 + i] = msg.sender
          /\ \A o \in KeyOrders(msginfo) :
                argv[2 + i] =
                   ReplaceKeys(expand_user_vars(conf.arguments[i]), o,
                               msginfo)

\* the part of C21 that fails alone: the order of the fields does not matter
C21_AnyOrder ==
    argv # <<>>
    => \A i \in 1..Len(conf.arguments) :
          \A o \in KeyOrders(msginfo) :
             argv[2 + i] =
                ReplaceKeys(expand_user_vars(conf.arguments[i]), o, msginfo)

\* the part of C21 that fails alone: "%(sender)" gives the sender verbatim
C21_Verbatim ==
    argv # <<>>
    => \A i \in 1..Len(conf.arguments) :
          conf.arguments[i] = Placeholder("sender") => argv[2 + i] = msg.sender

====
